---- MODULE Spec2Model ----
(***************************************************************************)
(* A model of the K210 DVP (camera capture peripheral) driver of           *)
(* rust/k210-shared/src/soc/dvp.rs.                                        *)
(*                                                                         *)
(* The driver is single threaded: `pc` is the position of the one caller.  *)
(* pc = "idle" means that no driver function is running; `call` then holds *)
(* the function that returned last and `ret` what it returned.  A function *)
(* that only writes configuration registers is one atomic action (the      *)
(* hardware never changes those registers).  A function that polls or      *)
(* writes the status register `sts` is split at every read and write of    *)
(* it, because the hardware changes `sts` between them.  A busy-wait loop  *)
(* `while cond {}` is one action guarded by ~cond: spinning is stuttering. *)
(*                                                                         *)
(* `trace` is a history variable: the events of the call in progress (or   *)
(* of the call that returned last), emptied when a call starts.            *)
(***************************************************************************)
EXTENDS Integers, Sequences, FiniteSets, TLC

VARIABLES
    sccb_cfg,       \* register: scl_lcnt, scl_hcnt, byte_num, rdata
    sccb_ctl,       \* register: device_address, reg_address, wdata_byte0/1
    sts,            \* register: frame_start, frame_finish, dvp_en, sccb_en
    dvp_cfg,        \* register: format, burst, geometry, enables
    axi,            \* register: gm_mlen
    cmos_cfg,       \* register: clk_div, clk_enable, power_down, reset
    sccb_addr_len,  \* DVP.sccb_addr_len: "W8" or "W16"
    apb1_freq,      \* sysctl::clock_get_freq(clock::APB1)
    dvp_freq,       \* sysctl::clock_get_freq(clock::DVP)
    pc,             \* position of the caller
    ra,             \* where sccb_start_transfer / reset return to
    rd,             \* the bits read by the sts.modify in progress
    call,           \* [op, args] of the call in progress / returned last
    ret,            \* [kind, val] result of the call returned last
    trace           \* history: events of the call

regs == <<sccb_cfg, sccb_ctl, sts, dvp_cfg, axi, cmos_cfg>>
vars == <<sccb_cfg, sccb_ctl, sts, dvp_cfg, axi, cmos_cfg, sccb_addr_len,
          apb1_freq, dvp_freq, pc, ra, rd, call, ret, trace>>

(***************************************************************************)
(* Inputs.  Sets of values the callers and the environment draw from.      *)
(***************************************************************************)
\* Device addresses: one with the low bit clear, one with it set.
DevAddrs == {66, 67}
\* Register addresses (u16): one that fits a byte, one with a high byte.
RegAddrs == {18, 12298}
\* Data bytes written to a sensor register.
DataBytes == {0, 165}
\* Bytes the sensor may answer on a read.
RDataVals == {0, 90}
\* Bus clock (APB1) and pixel clock (DVP) frequencies.
Apb1Freqs == {51199, 51200}
DvpFreqs == {40000, 51200}
\* Requested clock rates (u32), 0 included.
Rates == {0, 1, 100, 200, 30000}
AddrLens == {"W8", "W16"}

(***************************************************************************)
(* Register reset values.                                                  *)
(***************************************************************************)
SccbCfgReset == [scl_lcnt |-> 0, scl_hcnt |-> 0, byte_num |-> 0, rdata |-> 0]
SccbCtlReset == [device_address |-> 0, reg_address |-> 0,
                 wdata_byte0 |-> 0, wdata_byte1 |-> 0]
StsReset == [frame_start |-> FALSE, frame_finish |-> FALSE,
             dvp_en |-> FALSE, sccb_en |-> FALSE]
DvpCfgReset == [format |-> "RGB", burst_size_4beats |-> FALSE,
                href_burst_num |-> 0, line_num |-> 0,
                start_int_enable |-> FALSE, finish_int_enable |-> FALSE,
                auto_enable |-> FALSE, ai_output_enable |-> FALSE,
                display_output_enable |-> FALSE]
AxiReset == [gm_mlen |-> "BYTE1"]
CmosCfgReset == [clk_div |-> 0, clk_enable |-> FALSE,
                 power_down |-> FALSE, reset |-> FALSE]

NoCall == [op |-> "none", args |-> <<>>]
NoRet == [kind |-> "none", val |-> 0]
Unit == [kind |-> "unit", val |-> 0]
Val(v) == [kind |-> "val", val |-> v]
Panicked == [kind |-> "panic", val |-> 0]

(***************************************************************************)
(* The state after DVPExt::constrain: the handle holds W8; the driver has  *)
(* written no register.  The status flags are the hardware's: a camera may *)
(* already be running and a transfer may be in flight (a warm restart).    *)
(***************************************************************************)
Init ==
    /\ sccb_cfg = SccbCfgReset
    /\ sccb_ctl = SccbCtlReset
    /\ sts \in [frame_start : BOOLEAN, frame_finish : BOOLEAN,
                dvp_en : {FALSE}, sccb_en : BOOLEAN]
    /\ dvp_cfg = DvpCfgReset
    /\ axi = AxiReset
    /\ cmos_cfg = CmosCfgReset
    /\ sccb_addr_len = "W8"
    /\ apb1_freq \in Apb1Freqs
    /\ dvp_freq \in DvpFreqs
    /\ pc = "idle"
    /\ ra = "none"
    /\ rd = {}
    /\ call = NoCall
    /\ ret = NoRet
    /\ trace = <<>>

(***************************************************************************)
(* Helpers.                                                                *)
(***************************************************************************)
\* x | 1 on a byte
BitOr1(x) == IF x % 2 = 0 THEN x + 1 ELSE x
\* (x >> 8) as u8 and (x & 0xff) as u8 of a u16
HighByte(x) == (x \div 256) % 256
LowByte(x) == x % 256

Last(s) == s[Len(s)]

(***************************************************************************)
(* Hardware: the status register.  A write carries the set `w` of the bits *)
(* written as 1 (sts.write starts from an all-zero word).  A field takes   *)
(* effect only together with its write-enable bit: the frame flags are     *)
(* cleared by writing 1, dvp_en takes the written value, and writing       *)
(* sccb_en starts a transfer, after which sccb_en reads 1 until the        *)
(* hardware completes it.                                                  *)
(***************************************************************************)
StsWrite(s, w) ==
    [frame_start  |-> IF {"frame_start", "frame_start_we"} \subseteq w
                      THEN FALSE ELSE s.frame_start,
     frame_finish |-> IF {"frame_finish", "frame_finish_we"} \subseteq w
                      THEN FALSE ELSE s.frame_finish,
     dvp_en       |-> IF "dvp_en_we" \in w THEN "dvp_en" \in w ELSE s.dvp_en,
     sccb_en      |-> IF {"sccb_en", "sccb_en_we"} \subseteq w
                      THEN TRUE ELSE s.sccb_en]

\* The SCCB engine completes the transfer in flight; a byte is latched.
HwSccbDone ==
    /\ sts.sccb_en
    /\ sts' = [sts EXCEPT !.sccb_en = FALSE]
    /\ \E b \in RDataVals :
        /\ sccb_cfg' = [sccb_cfg EXCEPT !.rdata = b]
        /\ trace' = IF pc # "idle" /\ trace # <<>> /\ Last(trace).ev = "xfer_start"
                    THEN Append(trace, [ev |-> "xfer_done", rdata |-> b])
                    ELSE trace
    /\ UNCHANGED <<sccb_ctl, dvp_cfg, axi, cmos_cfg, sccb_addr_len,
                   apb1_freq, dvp_freq, pc, ra, rd, call, ret>>

(***************************************************************************)
(* ControlBusEngine: sccb_start_transfer, sccb_send_data,                  *)
(* sccb_receive_data.                                                      *)
(***************************************************************************)
\* The bits sccb_start_transfer writes to sts.
StartTransferBits == {"sccb_en", "sccb_en_we"}

\* while sts.sccb_en {} (first loop)
sccb_start_transfer_wait1 ==
    /\ pc = "xfer_wait1"
    /\ ~sts.sccb_en
    /\ pc' = "xfer_enable"
    /\ UNCHANGED <<regs, sccb_addr_len, apb1_freq, dvp_freq, ra, rd, call, ret, trace>>

\* sts.write(sccb_en | sccb_en_we); the event records what the engine is
\* handed: the byte count and the payload programmed at this moment.
sccb_start_transfer_enable ==
    /\ pc = "xfer_enable"
    /\ sts' = StsWrite(sts, StartTransferBits)
    /\ trace' = Append(trace, [ev |-> "xfer_start", w |-> StartTransferBits,
                               busy |-> sts.sccb_en,
                               byte_num |-> sccb_cfg.byte_num,
                               ctl |-> sccb_ctl])
    /\ pc' = "xfer_wait2"
    /\ UNCHANGED <<sccb_cfg, sccb_ctl, dvp_cfg, axi, cmos_cfg, sccb_addr_len,
                   apb1_freq, dvp_freq, ra, rd, call, ret>>

\* Faulty variant: the second loop is missing.
sccb_start_transfer_nowait2 ==
    /\ pc = "xfer_wait2"
    /\ pc' = ra
    /\ ra' = "none"
    /\ rd' = rd
    /\ UNCHANGED <<regs, sccb_addr_len, apb1_freq, dvp_freq, call, ret, trace>>

\* while sts.sccb_en {} (second loop), then return to the caller
sccb_start_transfer_wait2 ==
    /\ pc = "xfer_wait2"
    /\ ~sts.sccb_en
    /\ pc' = ra
    /\ ra' = "none"
    /\ rd' = rd
    /\ UNCHANGED <<regs, sccb_addr_len, apb1_freq, dvp_freq, call, ret, trace>>

\* Faulty variant: the byte count ignores the address width.
SendByteNumFixed(len) == 3

\* byte_num and sccb_ctl as sccb_send_data programs them
SendByteNum(len) == IF len = "W8" THEN 3 ELSE 4

SendCtl(len, dev_addr, reg_addr, reg_data) ==
    IF len = "W8"
    THEN [device_address |-> BitOr1(dev_addr), reg_address |-> LowByte(reg_addr),
          wdata_byte0 |-> reg_data, wdata_byte1 |-> 0]
    ELSE [device_address |-> BitOr1(dev_addr), reg_address |-> HighByte(reg_addr),
          wdata_byte0 |-> LowByte(reg_addr), wdata_byte1 |-> reg_data]

sccb_send_data(dev_addr, reg_addr, reg_data) ==
    /\ pc = "idle"
    /\ sccb_cfg' = [sccb_cfg EXCEPT !.byte_num = SendByteNum(sccb_addr_len)]
    /\ sccb_ctl' = SendCtl(sccb_addr_len, dev_addr, reg_addr, reg_data)
    /\ pc' = "xfer_wait1"
    /\ ra' = "send_ret"
    /\ rd' = rd
    /\ call' = [op |-> "sccb_send_data", args |-> <<dev_addr, reg_addr, reg_data>>]
    /\ ret' = NoRet
    /\ trace' = <<>>
    /\ UNCHANGED <<sts, dvp_cfg, axi, cmos_cfg, sccb_addr_len, apb1_freq, dvp_freq>>

sccb_send_data_ret ==
    /\ pc = "send_ret"
    /\ pc' = "idle"
    /\ ret' = Unit
    /\ UNCHANGED <<regs, sccb_addr_len, apb1_freq, dvp_freq, ra, rd, call, trace>>

\* Faulty variant: the read request uses the write path's byte count.
RecvByteNumAsWrite(len) == SendByteNum(len)

\* byte_num and sccb_ctl as sccb_receive_data programs them for the read request
RecvByteNum(len) == IF len = "W8" THEN 2 ELSE 3

RecvCtl(len, dev_addr, reg_addr) ==
    IF len = "W8"
    THEN [device_address |-> BitOr1(dev_addr), reg_address |-> LowByte(reg_addr),
          wdata_byte0 |-> 0, wdata_byte1 |-> 0]
    ELSE [device_address |-> BitOr1(dev_addr), reg_address |-> HighByte(reg_addr),
          wdata_byte0 |-> LowByte(reg_addr), wdata_byte1 |-> 0]

\* Faulty variant: the read transfer marks the device address like a write.
StrobeCtlMarked(dev_addr) ==
    [device_address |-> BitOr1(dev_addr), reg_address |-> 0,
     wdata_byte0 |-> 0, wdata_byte1 |-> 0]

\* sccb_ctl as written for the read transfer (line 130)
StrobeCtl(dev_addr) ==
    [device_address |-> dev_addr, reg_address |-> 0,
     wdata_byte0 |-> 0, wdata_byte1 |-> 0]

sccb_receive_data(dev_addr, reg_addr) ==
    /\ pc = "idle"
    /\ sccb_cfg' = [sccb_cfg EXCEPT !.byte_num = RecvByteNum(sccb_addr_len)]
    /\ sccb_ctl' = RecvCtl(sccb_addr_len, dev_addr, reg_addr)
    /\ pc' = "xfer_wait1"
    /\ ra' = "recv_strobe"
    /\ rd' = rd
    /\ call' = [op |-> "sccb_receive_data", args |-> <<dev_addr, reg_addr>>]
    /\ ret' = NoRet
    /\ trace' = <<>>
    /\ UNCHANGED <<sts, dvp_cfg, axi, cmos_cfg, sccb_addr_len, apb1_freq, dvp_freq>>

\* the first transfer has returned: program the read transfer and start it
sccb_receive_data_strobe ==
    /\ pc = "recv_strobe"
    /\ sccb_ctl' = StrobeCtl(call.args[1])
    /\ pc' = "xfer_wait1"
    /\ ra' = "recv_ret"
    /\ rd' = rd
    /\ UNCHANGED <<sccb_cfg, sts, dvp_cfg, axi, cmos_cfg, sccb_addr_len,
                   apb1_freq, dvp_freq, call, ret, trace>>

\* self.dvp.sccb_cfg.read().rdata().bits()
sccb_receive_data_ret ==
    /\ pc = "recv_ret"
    /\ pc' = "idle"
    /\ ret' = Val(sccb_cfg.rdata)
    /\ UNCHANGED <<regs, sccb_addr_len, apb1_freq, dvp_freq, ra, rd, call, trace>>

(***************************************************************************)
(* Sensor reset, init, and the ClockConfigurator.                          *)
(***************************************************************************)
\* usleep(200_000) after every stage of reset()
ResetSleepUs == 200000

CmosEvent(field, bit) == [ev |-> "cmos_write", field |-> field, bit |-> bit]
SleepEvent == [ev |-> "usleep", us |-> ResetSleepUs]

\* Faulty variant of a stage: the usleep after the write is missing.
ResetStageNoSleep(field, bit, next) ==
    /\ cmos_cfg' = [cmos_cfg EXCEPT ![field] = bit]
    /\ trace' = Append(trace, CmosEvent(field, bit))
    /\ pc' = next
    /\ ra' = IF next = ra THEN "none" ELSE ra
    /\ rd' = rd
    /\ UNCHANGED <<sccb_cfg, sccb_ctl, sts, dvp_cfg, axi, sccb_addr_len,
                   apb1_freq, dvp_freq, call, ret>>

\* One stage of reset(): cmos_cfg.modify of one bit, then usleep.
ResetStage(field, bit, next) ==
    /\ cmos_cfg' = [cmos_cfg EXCEPT ![field] = bit]
    /\ trace' = trace \o <<CmosEvent(field, bit), SleepEvent>>
    /\ pc' = next
    /\ ra' = IF next = ra THEN "none" ELSE ra
    /\ rd' = rd
    /\ UNCHANGED <<sccb_cfg, sccb_ctl, sts, dvp_cfg, axi, sccb_addr_len,
                   apb1_freq, dvp_freq, call, ret>>

reset_power_down_set ==
    /\ pc = "reset_pd_set"
    /\ ResetStage("power_down", TRUE, "reset_pd_clear")

reset_power_down_clear ==
    /\ pc = "reset_pd_clear"
    /\ ResetStage("power_down", FALSE, "reset_rst_clear")

reset_reset_clear ==
    /\ pc = "reset_rst_clear"
    /\ ResetStage("reset", FALSE, "reset_rst_set")

reset_reset_set ==
    /\ pc = "reset_rst_set"
    /\ ResetStage("reset", TRUE, ra)

\* Faulty variant: the high half-period is left at its reset value.
sccb_clk_init_low_only(cfg) == [cfg EXCEPT !.scl_lcnt = 255, !.scl_hcnt = 0]

\* scl_lcnt = scl_hcnt = 255
sccb_clk_init(cfg) == [cfg EXCEPT !.scl_lcnt = 255, !.scl_hcnt = 255]

\* init: sysctl::clock_enable and sysctl::reset are the clock service's; a
\* peripheral reset either returns the registers to their reset values or
\* (if it does not reach them) leaves them.
init(len) ==
    /\ pc = "idle"
    /\ sccb_addr_len' = len
    /\ \E cleared \in BOOLEAN :
        /\ cmos_cfg' = [(IF cleared THEN CmosCfgReset ELSE cmos_cfg)
                         EXCEPT !.clk_div = 3, !.clk_enable = TRUE]
        /\ sccb_cfg' = sccb_clk_init(IF cleared THEN SccbCfgReset ELSE sccb_cfg)
        /\ sccb_ctl' = IF cleared THEN SccbCtlReset ELSE sccb_ctl
        /\ sts' = IF cleared THEN StsReset ELSE sts
        /\ dvp_cfg' = IF cleared THEN DvpCfgReset ELSE dvp_cfg
        /\ axi' = IF cleared THEN AxiReset ELSE axi
    /\ pc' = "reset_pd_set"
    /\ ra' = "init_ret"
    /\ rd' = rd
    /\ call' = [op |-> "init", args |-> <<len>>]
    /\ ret' = NoRet
    /\ trace' = <<>>
    /\ UNCHANGED <<apb1_freq, dvp_freq>>

init_ret ==
    /\ pc = "init_ret"
    /\ pc' = "idle"
    /\ ret' = Unit
    /\ UNCHANGED <<regs, sccb_addr_len, apb1_freq, dvp_freq, ra, rd, call, trace>>

\* A panic (division by zero, a failed assert!) ends the program.
Panic(op, args) ==
    /\ pc' = "panic"
    /\ call' = [op |-> op, args |-> args]
    /\ ret' = Panicked
    /\ trace' = <<>>

\* v_period_clk_cnt = v_sccb_freq / clk_rate / 2
SccbPeriodClkCnt(freq, clk_rate) == (freq \div clk_rate) \div 2

\* Faulty variant of the range check: off by one.
SccbRateRejectedOffByOne(cnt) == cnt > 256

\* if v_period_clk_cnt > 255 { return 0; }
SccbRateRejected(cnt) == cnt > 255

sccb_set_clk_rate(clk_rate) ==
    /\ pc = "idle"
    /\ IF clk_rate = 0
       THEN \* line 59 divides by zero
            /\ Panic("sccb_set_clk_rate", <<clk_rate>>)
            /\ UNCHANGED <<regs, sccb_addr_len, apb1_freq, dvp_freq, ra, rd>>
       ELSE LET cnt == SccbPeriodClkCnt(apb1_freq, clk_rate) IN
            IF SccbRateRejected(cnt)
            THEN /\ pc' = "idle"
                 /\ call' = [op |-> "sccb_set_clk_rate", args |-> <<clk_rate>>]
                 /\ ret' = Val(0)
                 /\ trace' = <<>>
                 /\ UNCHANGED <<regs, sccb_addr_len, apb1_freq, dvp_freq, ra, rd>>
            ELSE /\ sccb_cfg' = [sccb_cfg EXCEPT !.scl_lcnt = cnt % 256,
                                                  !.scl_hcnt = cnt % 256]
                 /\ IF cnt * 2 = 0
                    THEN \* line 71 divides by zero, after the write
                         Panic("sccb_set_clk_rate", <<clk_rate>>)
                    ELSE /\ pc' = "idle"
                         /\ call' = [op |-> "sccb_set_clk_rate", args |-> <<clk_rate>>]
                         /\ ret' = Val(dvp_freq \div (cnt * 2))
                         /\ trace' = <<>>
                 /\ UNCHANGED <<sccb_ctl, sts, dvp_cfg, axi, cmos_cfg, sccb_addr_len,
                                apb1_freq, dvp_freq, ra, rd>>

\* Faulty variant of v_period: the "- 1" is missing.
XclkPeriodNoMinusOne(freq, xclk_rate) ==
    IF freq > xclk_rate * 2
    THEN LET q == freq \div (xclk_rate * 2) IN IF q < 255 THEN q ELSE 255
    ELSE 0

\* v_period of set_xclk_rate; evaluated only when it does not divide by zero
XclkPeriod(freq, xclk_rate) ==
    IF freq > xclk_rate * 2
    THEN LET q == (freq \div (xclk_rate * 2)) - 1 IN IF q < 255 THEN q ELSE 255
    ELSE 0

set_xclk_rate(xclk_rate) ==
    /\ pc = "idle"
    /\ IF apb1_freq > xclk_rate * 2 /\ xclk_rate * 2 = 0
       THEN \* line 169 divides by zero
            /\ Panic("set_xclk_rate", <<xclk_rate>>)
            /\ UNCHANGED <<regs, sccb_addr_len, apb1_freq, dvp_freq, ra, rd>>
       ELSE /\ cmos_cfg' = [cmos_cfg EXCEPT
                               !.clk_div = XclkPeriod(apb1_freq, xclk_rate) % 256,
                               !.clk_enable = TRUE]
            /\ pc' = "reset_pd_set"
            /\ ra' = "xclk_ret"
            /\ rd' = rd
            /\ call' = [op |-> "set_xclk_rate", args |-> <<xclk_rate>>]
            /\ ret' = NoRet
            /\ trace' = <<>>
            /\ UNCHANGED <<sccb_cfg, sccb_ctl, sts, dvp_cfg, axi, sccb_addr_len,
                           apb1_freq, dvp_freq>>

\* v_apb1_clk / ((v_period + 1) * 2)
set_xclk_rate_ret ==
    /\ pc = "xclk_ret"
    /\ pc' = "idle"
    /\ ret' = Val(apb1_freq \div ((XclkPeriod(apb1_freq, call.args[1]) + 1) * 2))
    /\ UNCHANGED <<regs, sccb_addr_len, apb1_freq, dvp_freq, ra, rd, call, trace>>

(***************************************************************************)
(* FrameCaptureController and InterruptController: the camera raises the   *)
(* frame flags; the driver polls and acknowledges them.                    *)
(***************************************************************************)
FrameEvent(ev, bits) == [ev |-> ev, bits |-> bits]

InFrameCall == pc \notin {"idle", "panic"}

\* The camera signals the start of a frame.
HwFrameStart ==
    /\ ~sts.frame_start
    /\ sts' = [sts EXCEPT !.frame_start = TRUE]
    /\ trace' = IF InFrameCall
                THEN Append(trace, FrameEvent("hw", {"frame_start"}))
                ELSE trace
    /\ UNCHANGED <<sccb_cfg, sccb_ctl, dvp_cfg, axi, cmos_cfg, sccb_addr_len,
                   apb1_freq, dvp_freq, pc, ra, rd, call, ret>>

\* The camera signals the end of a frame; the conversion enable may drop.
HwFrameFinish ==
    /\ ~sts.frame_finish
    /\ \E en \in {sts.dvp_en, FALSE} :
        sts' = [sts EXCEPT !.frame_finish = TRUE, !.dvp_en = en]
    /\ trace' = IF InFrameCall
                THEN Append(trace, FrameEvent("hw", {"frame_finish"}))
                ELSE trace
    /\ UNCHANGED <<sccb_cfg, sccb_ctl, dvp_cfg, axi, cmos_cfg, sccb_addr_len,
                   apb1_freq, dvp_freq, pc, ra, rd, call, ret>>

\* A call that starts by polling sts.
StartPolling(op, first) ==
    /\ pc' = first
    /\ call' = [op |-> op, args |-> <<>>]
    /\ ret' = NoRet
    /\ trace' = <<>>
    /\ UNCHANGED <<regs, sccb_addr_len, apb1_freq, dvp_freq, ra, rd>>

\* while !sts.read().<flag>().bit() {}
WaitFlag(flag, next) ==
    /\ sts[flag]
    /\ trace' = Append(trace, FrameEvent("saw", {flag}))
    /\ pc' = next
    /\ ret' = IF next = "idle" THEN Unit ELSE ret
    /\ UNCHANGED <<regs, sccb_addr_len, apb1_freq, dvp_freq, ra, rd, call>>

\* sts.write(|w| ...) with the bits `bits` set
WriteSts(bits, next) ==
    /\ sts' = StsWrite(sts, bits)
    /\ trace' = Append(trace, FrameEvent("sts_write", bits))
    /\ pc' = next
    /\ ret' = IF next = "idle" THEN Unit ELSE ret
    /\ UNCHANGED <<sccb_cfg, sccb_ctl, dvp_cfg, axi, cmos_cfg, sccb_addr_len,
                   apb1_freq, dvp_freq, ra, rd, call>>

AckStartBits == {"frame_start", "frame_start_we"}
AckFinishBits == {"frame_finish", "frame_finish_we"}
ConvertBits == {"dvp_en", "dvp_en_we"}

\* Faulty variant: the combined write forgets to acknowledge frame_finish.
GetImageBitsNoFinishAck == AckStartBits \cup ConvertBits

\* The write of get_image after the second frame start (lines 272-277).
GetImageBits == AckFinishBits \cup AckStartBits \cup ConvertBits

get_image ==
    /\ pc = "idle"
    /\ StartPolling("get_image", "gi_wait_start1")

get_image_wait_start1 ==
    /\ pc = "gi_wait_start1"
    /\ WaitFlag("frame_start", "gi_ack_start")

get_image_ack_start ==
    /\ pc = "gi_ack_start"
    /\ WriteSts(AckStartBits, "gi_wait_start2")

\* Faulty variant: the second wait for frame_start does not wait.
get_image_skip_start2 ==
    /\ pc = "gi_wait_start2"
    /\ trace' = Append(trace, FrameEvent("saw", {"frame_start"}))
    /\ pc' = "gi_convert"
    /\ UNCHANGED <<regs, sccb_addr_len, apb1_freq, dvp_freq, ra, rd, call, ret>>

get_image_wait_start2 ==
    /\ pc = "gi_wait_start2"
    /\ WaitFlag("frame_start", "gi_convert")

\* Faulty variant: the write that enables conversion leaves frame_finish
\* unacknowledged.
get_image_convert_keep_finish ==
    /\ pc = "gi_convert"
    /\ WriteSts(AckStartBits \cup ConvertBits, "gi_wait_finish")

get_image_convert ==
    /\ pc = "gi_convert"
    /\ WriteSts(GetImageBits, "gi_wait_finish")

get_image_wait_finish ==
    /\ pc = "gi_wait_finish"
    /\ WaitFlag("frame_finish", "idle")

start_frame ==
    /\ pc = "idle"
    /\ StartPolling("start_frame", "sf_wait")

start_frame_wait ==
    /\ pc = "sf_wait"
    /\ WaitFlag("frame_start", "sf_ack")

\* Faulty variant: start_frame acknowledges both flags.
start_frame_ack_both ==
    /\ pc = "sf_ack"
    /\ WriteSts(AckStartBits \cup AckFinishBits, "idle")

start_frame_ack ==
    /\ pc = "sf_ack"
    /\ WriteSts(AckStartBits, "idle")

start_convert ==
    /\ pc = "idle"
    /\ sts' = StsWrite(sts, ConvertBits)
    /\ trace' = <<FrameEvent("sts_write", ConvertBits)>>
    /\ call' = [op |-> "start_convert", args |-> <<>>]
    /\ ret' = Unit
    /\ UNCHANGED <<sccb_cfg, sccb_ctl, dvp_cfg, axi, cmos_cfg, sccb_addr_len,
                   apb1_freq, dvp_freq, pc, ra, rd>>

finish_convert ==
    /\ pc = "idle"
    /\ StartPolling("finish_convert", "fc_wait")

\* Faulty variant: finish_convert does not wait for frame_finish.
finish_convert_nowait ==
    /\ pc = "fc_wait"
    /\ trace' = Append(trace, FrameEvent("saw", {"frame_finish"}))
    /\ pc' = "fc_ack"
    /\ UNCHANGED <<regs, sccb_addr_len, apb1_freq, dvp_freq, ra, rd, call, ret>>

finish_convert_wait ==
    /\ pc = "fc_wait"
    /\ WaitFlag("frame_finish", "fc_ack")

finish_convert_ack ==
    /\ pc = "fc_ack"
    /\ WriteSts(AckFinishBits, "idle")

(***************************************************************************)
(* Configuration: format, burst mode, geometry.                            *)
(***************************************************************************)
Formats == {"RGB", "YUV"}
Widths == {2040, 2048, 8160, 8192}
Heights == {100, 1023, 1024}

ConfigCall(op, args) ==
    /\ pc = "idle"
    /\ pc' = "idle"
    /\ call' = [op |-> op, args |-> args]
    /\ ret' = Unit
    /\ trace' = <<>>
    /\ UNCHANGED <<sccb_cfg, sccb_ctl, sts, cmos_cfg, sccb_addr_len,
                   apb1_freq, dvp_freq, ra, rd>>

set_image_format(format) ==
    /\ ConfigCall("set_image_format", <<format>>)
    /\ dvp_cfg' = [dvp_cfg EXCEPT !.format = format]
    /\ UNCHANGED axi

enable_burst ==
    /\ ConfigCall("enable_burst", <<>>)
    /\ dvp_cfg' = [dvp_cfg EXCEPT !.burst_size_4beats = TRUE]
    /\ axi' = [axi EXCEPT !.gm_mlen = "BYTE4"]

disable_burst ==
    /\ ConfigCall("disable_burst", <<>>)
    /\ dvp_cfg' = [dvp_cfg EXCEPT !.burst_size_4beats = FALSE]
    /\ axi' = [axi EXCEPT !.gm_mlen = "BYTE1"]

\* Faulty variant: the burst count ignores the burst mode.
BurstNumIgnoresMode(cfg, width) == (width \div 8) \div 1

\* burst_num of set_image_size
BurstNum(cfg, width) ==
    IF cfg.burst_size_4beats THEN (width \div 8) \div 4 ELSE (width \div 8) \div 1

\* Faulty variant of the two asserts: the burst bound is off by one.
GeometryOkOffByOne(burst_num, height) == burst_num <= 256 /\ height < 1024

\* assert!(burst_num < 256); assert!(height < 1024);
GeometryOk(burst_num, height) == burst_num < 256 /\ height < 1024

\* Faulty variant: the burst count is programmed before the height is checked.
set_image_size_write_first(width, height) ==
    /\ pc = "idle"
    /\ LET burst_num == BurstNum(dvp_cfg, width) IN
        IF burst_num < 256
        THEN IF height < 1024
             THEN /\ ConfigCall("set_image_size", <<width, height>>)
                  /\ dvp_cfg' = [dvp_cfg EXCEPT !.href_burst_num = burst_num % 256,
                                                !.line_num = height]
                  /\ UNCHANGED axi
             ELSE /\ Panic("set_image_size", <<width, height>>)
                  /\ dvp_cfg' = [dvp_cfg EXCEPT !.href_burst_num = burst_num % 256]
                  /\ UNCHANGED <<sccb_cfg, sccb_ctl, sts, axi, cmos_cfg,
                                 sccb_addr_len, apb1_freq, dvp_freq, ra, rd>>
        ELSE /\ Panic("set_image_size", <<width, height>>)
             /\ UNCHANGED <<regs, sccb_addr_len, apb1_freq, dvp_freq, ra, rd>>

set_image_size(width, height) ==
    /\ pc = "idle"
    /\ LET burst_num == BurstNum(dvp_cfg, width) IN
        IF GeometryOk(burst_num, height)
        THEN /\ ConfigCall("set_image_size", <<width, height>>)
             /\ dvp_cfg' = [dvp_cfg EXCEPT !.href_burst_num = burst_num % 256,
                                           !.line_num = height]
             /\ UNCHANGED axi
        ELSE \* a failed assert! writes nothing
             /\ Panic("set_image_size", <<width, height>>)
             /\ UNCHANGED <<regs, sccb_addr_len, apb1_freq, dvp_freq, ra, rd>>

(***************************************************************************)
(* Configuration: interrupts, automatic mode, output paths.                *)
(***************************************************************************)
Interrupts == {"frame_start", "frame_finish"}
OutputModes == {"AI", "DISPLAY"}

\* The enable bit of dvp_cfg that config_interrupt selects.
IntEnableField(interrupt) ==
    IF interrupt = "frame_start" THEN "start_int_enable" ELSE "finish_int_enable"

config_interrupt(interrupt, enable) ==
    /\ ConfigCall("config_interrupt", <<interrupt, enable>>)
    /\ dvp_cfg' = [dvp_cfg EXCEPT ![IntEnableField(interrupt)] = enable]
    /\ UNCHANGED axi

enable_auto ==
    /\ ConfigCall("enable_auto", <<>>)
    /\ dvp_cfg' = [dvp_cfg EXCEPT !.auto_enable = TRUE]
    /\ UNCHANGED axi

disable_auto ==
    /\ ConfigCall("disable_auto", <<>>)
    /\ dvp_cfg' = [dvp_cfg EXCEPT !.auto_enable = FALSE]
    /\ UNCHANGED axi

\* Faulty variant: both modes select the same bit.
OutputFieldSame(index) == "ai_output_enable"

\* The enable bit of dvp_cfg that set_output_enable selects.
OutputField(index) ==
    IF index = "AI" THEN "ai_output_enable" ELSE "display_output_enable"

\* Faulty variant: enabling toggles the bit instead of setting it.
OutputEnableToggle(cfg, index, enable) ==
    [cfg EXCEPT ![OutputField(index)] = (cfg[OutputField(index)] # enable)]

\* dvp_cfg.modify(|_,w| w.<index>_output_enable().bit(enable))
OutputEnable(cfg, index, enable) ==
    [cfg EXCEPT ![OutputField(index)] = enable]

set_output_enable(index, enable) ==
    /\ ConfigCall("set_output_enable", <<index, enable>>)
    /\ dvp_cfg' = OutputEnable(dvp_cfg, index, enable)
    /\ UNCHANGED axi

(***************************************************************************)
(* Interrupt status: get_interrupt, clear_interrupt.  clear_interrupt uses *)
(* sts.modify: it reads sts, sets the flag and its write enable in the     *)
(* word read, and writes the word back; the camera and the SCCB engine may *)
(* act between the read and the write.                                     *)
(***************************************************************************)
\* The bits of sts that a read returns as 1: the fields that are set.  A
\* write enable qualifies a write and holds no state; it reads as 0.
StsReadBits(s) ==
    {f \in {"frame_start", "frame_finish", "dvp_en", "sccb_en"} : s[f]}

get_interrupt(interrupt) ==
    /\ pc = "idle"
    /\ call' = [op |-> "get_interrupt", args |-> <<interrupt>>]
    /\ ret' = Val(IF sts[interrupt] THEN 1 ELSE 0)
    /\ trace' = <<>>
    /\ UNCHANGED <<regs, sccb_addr_len, apb1_freq, dvp_freq, pc, ra, rd>>

\* Faulty variant: the write enable of the flag is not set.
ClearBitsNoCommit(interrupt) == {interrupt}

\* The bits clear_interrupt sets in the word it read.
ClearBits(interrupt) ==
    IF interrupt = "frame_start"
    THEN {"frame_start", "frame_start_we"}
    ELSE {"frame_finish", "frame_finish_we"}

\* sts.modify, the read
clear_interrupt(interrupt) ==
    /\ pc = "idle"
    /\ pc' = "ci_write"
    /\ rd' = StsReadBits(sts)
    /\ call' = [op |-> "clear_interrupt", args |-> <<interrupt>>]
    /\ ret' = NoRet
    /\ trace' = <<>>
    /\ UNCHANGED <<regs, sccb_addr_len, apb1_freq, dvp_freq, ra>>

\* sts.modify, the write
clear_interrupt_write ==
    /\ pc = "ci_write"
    /\ LET bits == rd \cup ClearBits(call.args[1]) IN
        /\ sts' = StsWrite(sts, bits)
        /\ trace' = Append(trace, FrameEvent("sts_write", bits))
    /\ pc' = "idle"
    /\ rd' = {}
    /\ ret' = Unit
    /\ UNCHANGED <<sccb_cfg, sccb_ctl, dvp_cfg, axi, cmos_cfg, sccb_addr_len,
                   apb1_freq, dvp_freq, ra, call>>

(***************************************************************************)
(* Specifications, one per component; Spec is the whole driver.            *)
(***************************************************************************)
InitCalls ==
    \/ \E len \in AddrLens : init(len)
    \/ reset_power_down_set
    \/ reset_power_down_clear
    \/ reset_reset_clear
    \/ reset_reset_set
    \/ init_ret

NextSccb ==
    \/ InitCalls
    \/ \E d \in DevAddrs, r \in RegAddrs, b \in DataBytes : sccb_send_data(d, r, b)
    \/ \E d \in DevAddrs, r \in RegAddrs : sccb_receive_data(d, r)
    \/ sccb_start_transfer_wait1
    \/ sccb_start_transfer_enable
    \/ sccb_start_transfer_wait2
    \/ sccb_send_data_ret
    \/ sccb_receive_data_strobe
    \/ sccb_receive_data_ret
    \/ HwSccbDone

NextClock ==
    \/ InitCalls
    \/ \E r \in Rates : sccb_set_clk_rate(r)
    \/ \E x \in Rates : set_xclk_rate(x)
    \/ set_xclk_rate_ret

NextFrame ==
    \/ get_image
    \/ get_image_wait_start1
    \/ get_image_ack_start
    \/ get_image_wait_start2
    \/ get_image_convert
    \/ get_image_wait_finish
    \/ start_frame
    \/ start_frame_wait
    \/ start_frame_ack
    \/ start_convert
    \/ finish_convert
    \/ finish_convert_wait
    \/ finish_convert_ack
    \/ HwFrameStart
    \/ HwFrameFinish

NextConfig ==
    \/ \E f \in Formats : set_image_format(f)
    \/ enable_burst
    \/ disable_burst
    \/ \E w \in Widths, h \in Heights : set_image_size(w, h)
    \/ \E i \in Interrupts, e \in BOOLEAN : config_interrupt(i, e)
    \/ enable_auto
    \/ disable_auto
    \/ \E i \in OutputModes, e \in BOOLEAN : set_output_enable(i, e)

NextInterrupt ==
    \/ \E i \in Interrupts : get_interrupt(i)
    \/ \E i \in Interrupts : clear_interrupt(i)
    \/ clear_interrupt_write
    \/ start_convert
    \/ HwFrameStart
    \/ HwFrameFinish
    \/ HwSccbDone

\* The control bus alone: no camera signal, fixed clocks.
InitSccb ==
    /\ Init
    /\ ~sts.frame_start /\ ~sts.frame_finish
    /\ apb1_freq = 51200 /\ dvp_freq = 51200

\* The clocks alone: the status register is quiet.
InitClock == Init /\ sts = StsReset

\* The capture state machine alone: the control bus is idle, fixed clocks.
InitFrame ==
    /\ Init
    /\ ~sts.sccb_en
    /\ apb1_freq = 51200 /\ dvp_freq = 51200

\* Configuration alone: the status register is quiet, fixed clocks.
InitConfig ==
    /\ Init
    /\ sts = StsReset
    /\ apb1_freq = 51200 /\ dvp_freq = 51200

\* Interrupt status alone: any status, a transfer may be in flight.
InitInterrupt == Init /\ apb1_freq = 51200 /\ dvp_freq = 51200

SpecInterrupt == InitInterrupt /\ [][NextInterrupt]_vars
SpecFrame == InitFrame /\ [][NextFrame]_vars
SpecConfig == InitConfig /\ [][NextConfig]_vars
SpecSccb == InitSccb /\ [][NextSccb]_vars
SpecClock == InitClock /\ [][NextClock]_vars

(***************************************************************************)
(* The blocking operations under fairness.  The caller runs without pause, *)
(* so a step of a call in progress that is enabled is eventually taken     *)
(* (weak fairness on DriverStep); which call comes next, and whether one   *)
(* comes, is free.  The hardware is assumed to produce every status that   *)
(* is awaited: it completes a transfer in flight and raises each frame     *)
(* flag that is clear.                                                     *)
(***************************************************************************)
DriverStep ==
    \/ sccb_start_transfer_wait1
    \/ sccb_start_transfer_enable
    \/ sccb_start_transfer_wait2
    \/ sccb_send_data_ret
    \/ sccb_receive_data_strobe
    \/ sccb_receive_data_ret
    \/ get_image_wait_start1
    \/ get_image_ack_start
    \/ get_image_wait_start2
    \/ get_image_convert
    \/ get_image_wait_finish
    \/ start_frame_wait
    \/ start_frame_ack
    \/ finish_convert_wait
    \/ finish_convert_ack

HwStep == HwSccbDone \/ HwFrameStart \/ HwFrameFinish

NextBlocking ==
    \/ \E d \in DevAddrs, r \in RegAddrs, b \in DataBytes : sccb_send_data(d, r, b)
    \/ \E d \in DevAddrs, r \in RegAddrs : sccb_receive_data(d, r)
    \/ get_image
    \/ start_frame
    \/ start_convert
    \/ finish_convert
    \/ DriverStep
    \/ HwStep

InitBlocking == Init /\ apb1_freq = 51200 /\ dvp_freq = 51200

SpecBlockingFair ==
    /\ InitBlocking
    /\ [][NextBlocking]_vars
    /\ WF_vars(DriverStep)
    /\ WF_vars(HwSccbDone)
    /\ WF_vars(HwFrameStart)
    /\ WF_vars(HwFrameFinish)

Next == NextSccb \/ NextClock \/ NextFrame \/ NextConfig \/ NextInterrupt
Spec == Init /\ [][Next]_vars

(***************************************************************************)
(* Properties.                                                             *)
(***************************************************************************)
\* q is the truncating quotient a / b (stated without \div).
IsQuot(q, a, b) == b > 0 /\ q >= 0 /\ q * b <= a /\ a < (q + 1) * b

Min(a, b) == IF a < b THEN a ELSE b

\* The transfers the engine was handed during the call, in order.
XferStarts == SelectSeq(trace, LAMBDA e : e.ev = "xfer_start")

Returned(op) == pc = "idle" /\ call.op = op
Ended(op) == pc \in {"idle", "panic"} /\ call.op = op

\* A wait loop the caller is in, and the status it polls for, is missing.
BlockedInWait ==
    \/ pc \in {"xfer_wait1", "xfer_wait2"} /\ sts.sccb_en
    \/ pc \in {"gi_wait_start1", "gi_wait_start2", "sf_wait"} /\ ~sts.frame_start
    \/ pc \in {"gi_wait_finish", "fc_wait"} /\ ~sts.frame_finish

\* C11: a blocking operation (sccb_start_transfer, start_frame,
\* finish_convert, get_image) leaves a wait only when the hardware shows the
\* polled status: with a hardware that produces each awaited status every
\* call returns; while the status is missing the caller stays in the wait
\* and writes no register (only the hardware changes anything).
C11_WaitsEndOnlyByHardware ==
    /\ (pc # "idle") ~> (pc = "idle")
    /\ [][BlockedInWait => (pc' = pc /\ (regs' = regs \/ HwStep))]_vars

\* get_image has enabled conversion and is blocked waiting for frame_finish.
C11_Witness ==
    /\ pc = "gi_wait_finish"
    /\ call.op = "get_image"
    /\ ~sts.frame_finish
    /\ sts.dvp_en

\* The stages of the sensor reset: the bit written, and the pc at which it
\* is written.
ResetStages ==
    << [at |-> "reset_pd_set", field |-> "power_down", bit |-> TRUE],
       [at |-> "reset_pd_clear", field |-> "power_down", bit |-> FALSE],
       [at |-> "reset_rst_clear", field |-> "reset", bit |-> FALSE],
       [at |-> "reset_rst_set", field |-> "reset", bit |-> TRUE] >>

\* How many stages are done at the caller's position.
StagesDone ==
    CASE pc = "reset_pd_set" -> 0
      [] pc = "reset_pd_clear" -> 1
      [] pc = "reset_rst_clear" -> 2
      [] pc = "reset_rst_set" -> 3
      [] OTHER -> 4

\* The trace holds, for each stage done, its write and then a 200 ms sleep.
ResetTraceOk ==
    /\ Len(trace) = 2 * StagesDone
    /\ \A k \in 1..StagesDone :
        /\ trace[2 * k - 1].ev = "cmos_write"
        /\ trace[2 * k - 1].field = ResetStages[k].field
        /\ trace[2 * k - 1].bit = ResetStages[k].bit
        /\ trace[2 * k].ev = "usleep"
        /\ trace[2 * k].us = 200 * 1000

\* C12: the sensor reset writes, in this order and each followed by a
\* 200 ms sleep before the next write: power_down set, power_down cleared,
\* reset cleared, reset set; it ends with power_down clear and reset set
\* and changes no other field.
C12_ResetSequence ==
    /\ [](call.op \in {"init", "set_xclk_rate"} /\ pc # "panic"
            => /\ ResetTraceOk
               /\ StagesDone = 4 => (~cmos_cfg.power_down /\ cmos_cfg.reset))
    /\ [][\A k \in 1..4 :
            pc = ResetStages[k].at
            => /\ cmos_cfg' = [cmos_cfg EXCEPT ![ResetStages[k].field] = ResetStages[k].bit]
               /\ <<sccb_cfg, sccb_ctl, sts, dvp_cfg, axi>>'
                    = <<sccb_cfg, sccb_ctl, sts, dvp_cfg, axi>>]_vars

\* init has returned after the four stages, the clock divider it set intact.
C12_Witness ==
    /\ Returned("init")
    /\ Len(trace) = 8
    /\ cmos_cfg = [clk_div |-> 3, clk_enable |-> TRUE,
                   power_down |-> FALSE, reset |-> TRUE]

\* What the driver itself did during the call: the flags it saw set when a
\* wait ended, and its writes to sts.
DriverEvents == SelectSeq(trace, LAMBDA e : e.ev \in {"saw", "sts_write"})

\* What the camera did during the call.
HwEvents == SelectSeq(trace, LAMBDA e : e.ev = "hw")

\* The five steps of a capture, in order.
CaptureSteps ==
    << FrameEvent("saw", {"frame_start"}),
       FrameEvent("sts_write", {"frame_start", "frame_start_we"}),
       FrameEvent("saw", {"frame_start"}),
       FrameEvent("sts_write", {"frame_finish", "frame_finish_we",
                                "frame_start", "frame_start_we",
                                "dvp_en", "dvp_en_we"}),
       FrameEvent("saw", {"frame_finish"}) >>

\* C1: get_image issues exactly one combined write (acknowledge
\* frame_finish, acknowledge frame_start, enable conversion); the write
\* comes after the second frame start is observed and before the wait for
\* frame_finish, and the call returns only after frame_finish is observed.
C1_CaptureFrameOrder ==
    call.op = "get_image"
    => /\ Len(DriverEvents) <= 5
       /\ \A i \in 1..Len(DriverEvents) : DriverEvents[i] = CaptureSteps[i]
       /\ pc = "idle" => Len(DriverEvents) = 5
       /\ pc = "gi_wait_finish" => Len(DriverEvents) = 4

\* The camera produced the edges start, start, finish, in that order, and
\* get_image has returned.
C1_Witness ==
    /\ Returned("get_image")
    /\ HwEvents = << FrameEvent("hw", {"frame_start"}),
                     FrameEvent("hw", {"frame_start"}),
                     FrameEvent("hw", {"frame_finish"}) >>
    /\ Len(trace) = 8
    /\ trace[6].ev = "sts_write" /\ trace[7].ev = "hw" /\ trace[8].ev = "saw"

\* C2: for F and R with F/R/2 <= 255, sccb_set_clk_rate(R) programs
\* D = F/R/2 into scl_lcnt and scl_hcnt and returns dvp_freq / (D*2).
\* (The statement as claimed; it fails where D = 0.)
C2_ProgramsDivisorAndReturnsRate ==
    (Ended("sccb_set_clk_rate") /\ call.args[1] >= 1
        /\ (apb1_freq \div call.args[1]) \div 2 <= 255)
    => LET D == (apb1_freq \div call.args[1]) \div 2 IN
        /\ sccb_cfg.scl_lcnt = D
        /\ sccb_cfg.scl_hcnt = D
        /\ ret.kind = "val"
        /\ IsQuot(ret.val, dvp_freq, D * 2)

\* C3: when F/R/2 > 255, sccb_set_clk_rate(R) returns 0 and leaves every
\* register as it was before the call.
C3_RejectedRateLeavesRegisters ==
    [][\A r \in Rates :
        (r >= 1 /\ (apb1_freq \div r) \div 2 > 255 /\ sccb_set_clk_rate(r))
        => (ret' = Val(0) /\ pc' = "idle" /\ regs' = regs)]_vars

\* A rejected call is reached with half-period counts that an earlier call
\* had programmed, and they are still there.
C3_Witness ==
    /\ Returned("sccb_set_clk_rate")
    /\ (apb1_freq \div call.args[1]) \div 2 > 255
    /\ ret = Val(0)
    /\ sccb_cfg.scl_lcnt = 128
    /\ sccb_cfg.scl_hcnt = 128

\* C4 as claimed: set_xclk_rate(X) returns 0 when F <= 2X, otherwise
\* F / ((min(F/(2X)-1, 255)+1)*2).
C4_ReturnsZeroWhenTooFast ==
    Returned("set_xclk_rate")
    => LET X == call.args[1] IN
        /\ ret.kind = "val"
        /\ (apb1_freq <= 2 * X => ret.val = 0)
        /\ (apb1_freq > 2 * X /\ X >= 1 =>
               IsQuot(ret.val, apb1_freq,
                      (Min((apb1_freq \div (2 * X)) - 1, 255) + 1) * 2))

\* C4 amended: set_xclk_rate(X) returns F/2 (divider period 0) when
\* F <= 2X, otherwise F / ((min(F/(2X)-1, 255)+1)*2); it ends in a panic
\* (division by zero) exactly for X = 0 with F > 0.
C4_ReturnsAchievedRate ==
    /\ Returned("set_xclk_rate")
       => LET X == call.args[1] IN
           /\ ret.kind = "val"
           /\ ~(X = 0 /\ apb1_freq > 0)
           /\ (apb1_freq <= 2 * X => IsQuot(ret.val, apb1_freq, 2))
           /\ (apb1_freq > 2 * X =>
                  IsQuot(ret.val, apb1_freq,
                         (Min((apb1_freq \div (2 * X)) - 1, 255) + 1) * 2))
    /\ (pc = "panic" /\ call.op = "set_xclk_rate")
       => (call.args[1] = 0 /\ apb1_freq > 0)

\* Both branches have returned: F <= 2X with a nonzero result, and the
\* panic for X = 0 is a separate state; this is the F <= 2X case.
C4_Witness ==
    /\ Returned("set_xclk_rate")
    /\ apb1_freq <= 2 * call.args[1]
    /\ ret.kind = "val"
    /\ ret.val > 0

\* C5: set_image_size succeeds exactly when burst_count = width/8/beats
\* (beats = 4 with burst enabled, 1 without) is < 256 and height < 1024,
\* and then programs that burst count and the line count; with burst
\* enabled width 8192 fails and 8160 succeeds, without burst 2040 x 1023
\* succeeds and height 1024 fails.
C5_GeometryAccepted ==
    Ended("set_image_size")
    => LET width == call.args[1]
           height == call.args[2]
           burst == dvp_cfg.burst_size_4beats
           beats == IF burst THEN 4 ELSE 1
           burst_count == (width \div 8) \div beats
       IN  /\ pc = "idle" <=> (burst_count < 256 /\ height < 1024)
           /\ pc = "idle" => /\ dvp_cfg.href_burst_num = burst_count
                             /\ dvp_cfg.line_num = height
           /\ (burst /\ width = 8192) => pc = "panic"
           /\ (burst /\ width = 8160 /\ height = 100) => pc = "idle"
           /\ (~burst /\ width = 2040 /\ height = 1023) => pc = "idle"
           /\ height = 1024 => pc = "panic"

\* The largest geometry with burst enabled has been accepted.
C5_Witness ==
    /\ Returned("set_image_size")
    /\ dvp_cfg.burst_size_4beats
    /\ call.args = <<8160, 1023>>
    /\ dvp_cfg.href_burst_num = 255
    /\ dvp_cfg.line_num = 1023

\* C6: a rejected set_image_size (burst_count >= 256 or height >= 1024)
\* has written no register: format, burst toggle, burst count and line
\* count (and every other register) keep their prior values.
C6_RejectedGeometryWritesNothing ==
    [][\A w \in Widths, h \in Heights :
        (set_image_size(w, h)
            /\ ((w \div 8) \div (IF dvp_cfg.burst_size_4beats THEN 4 ELSE 1) >= 256
                \/ h >= 1024))
        => (pc' = "panic" /\ regs' = regs)]_vars

\* A geometry was rejected on its height while an earlier configuration
\* (format, burst, burst count, line count) was in place, and it still is.
C6_Witness ==
    /\ pc = "panic"
    /\ call = [op |-> "set_image_size", args |-> <<2040, 1024>>]
    /\ dvp_cfg.format = "YUV"
    /\ dvp_cfg.burst_size_4beats
    /\ dvp_cfg.href_burst_num = 255
    /\ dvp_cfg.line_num = 1023

\* The payload a write of (d, r, b) hands to the engine.
WritePayloadOk(x, d, r, b) ==
    IF sccb_addr_len = "W8"
    THEN /\ x.byte_num = 3
         /\ x.ctl = [device_address |-> (d \div 2) * 2 + 1,
                     reg_address |-> r % 256,
                     wdata_byte0 |-> b, wdata_byte1 |-> 0]
    ELSE /\ x.byte_num = 4
         /\ x.ctl = [device_address |-> (d \div 2) * 2 + 1,
                     reg_address |-> r \div 256,
                     wdata_byte0 |-> r % 256, wdata_byte1 |-> b]

\* C8: sccb_send_data issues exactly one transfer, of 3 bytes (device,
\* register, data) under W8 and 4 bytes (device, register high, register
\* low, data) under W16, the payload being programmed when it is started.
C8_WriteIsOneTransfer ==
    call.op = "sccb_send_data"
    => /\ Len(XferStarts) <= 1
       /\ (pc \in {"xfer_wait2", "send_ret", "idle"} => Len(XferStarts) = 1)
       /\ \A i \in 1..Len(XferStarts) :
            WritePayloadOk(XferStarts[i], call.args[1], call.args[2], call.args[3])

C8_Witness ==
    /\ Returned("sccb_send_data")
    /\ sccb_addr_len = "W16"
    /\ call.args = <<66, 12298, 165>>
    /\ Len(XferStarts) = 1
    /\ XferStarts[1].byte_num = 4

\* The read request of (d, r): one byte fewer than a write, no data.
ReadSetupOk(x, d, r) ==
    IF sccb_addr_len = "W8"
    THEN /\ x.byte_num = 2
         /\ x.ctl.reg_address = r % 256
         /\ x.ctl.wdata_byte0 = 0 /\ x.ctl.wdata_byte1 = 0
    ELSE /\ x.byte_num = 3
         /\ x.ctl.reg_address = r \div 256
         /\ x.ctl.wdata_byte0 = r % 256 /\ x.ctl.wdata_byte1 = 0

\* The order of a completed read: start, done, start, done; the result is
\* the byte latched when the second transfer completed.
ReadSequenceOk ==
    /\ Len(trace) = 4
    /\ trace[1].ev = "xfer_start" /\ trace[2].ev = "xfer_done"
    /\ trace[3].ev = "xfer_start" /\ trace[4].ev = "xfer_done"
    /\ ~trace[3].busy
    /\ ret = Val(trace[4].rdata)

\* The read transfer carries only the device address.
StrobeOnlyDevice(x, d) ==
    /\ x.ctl.device_address \div 2 = d \div 2
    /\ x.ctl.reg_address = 0
    /\ x.ctl.wdata_byte0 = 0 /\ x.ctl.wdata_byte1 = 0

\* C7 as claimed: sccb_receive_data performs exactly two transfers in
\* sequence, a 2-byte (W8) or 3-byte (W16) setup transfer and then a 1-byte
\* read transfer carrying only the device address, and returns the byte in
\* the data register when the second completes.
C7_ReadStrobeIsOneByte ==
    Returned("sccb_receive_data")
    => /\ ReadSequenceOk
       /\ ReadSetupOk(trace[1], call.args[1], call.args[2])
       /\ StrobeOnlyDevice(trace[3], call.args[1])
       /\ trace[3].byte_num = 1

\* C7 amended: as claimed, except that the byte count is not reprogrammed
\* for the read transfer: it is started with the setup transfer's byte
\* count (2 under W8, 3 under W16) and a payload holding only the device
\* address.
C7_ReadIsTwoTransfers ==
    /\ call.op = "sccb_receive_data" => Len(XferStarts) <= 2
    /\ Returned("sccb_receive_data")
       => /\ ReadSequenceOk
          /\ ReadSetupOk(trace[1], call.args[1], call.args[2])
          /\ StrobeOnlyDevice(trace[3], call.args[1])
          /\ trace[3].byte_num = trace[1].byte_num

C7_Witness ==
    /\ Returned("sccb_receive_data")
    /\ sccb_addr_len = "W8"
    /\ Len(trace) = 4
    /\ trace[2].rdata # trace[4].rdata
    /\ ret.val = 90

\* C9 as claimed: both transfers of sccb_receive_data program the device
\* address with its low bit set, as sccb_send_data does.
C9_BothPhasesMarked ==
    call.op \in {"sccb_receive_data", "sccb_send_data"}
    => \A i \in 1..Len(XferStarts) : XferStarts[i].ctl.device_address % 2 = 1

\* C9 amended: the read request programs the device address with its low
\* bit set, as sccb_send_data does; the read transfer programs the device
\* address as the caller passed it, its low bit not forced.
C9_OnlySetupMarked ==
    /\ call.op = "sccb_send_data"
       => \A i \in 1..Len(XferStarts) :
            XferStarts[i].ctl.device_address = (call.args[1] \div 2) * 2 + 1
    /\ call.op = "sccb_receive_data"
       => /\ Len(XferStarts) >= 1
             => XferStarts[1].ctl.device_address = (call.args[1] \div 2) * 2 + 1
          /\ Len(XferStarts) >= 2
             => XferStarts[2].ctl.device_address = call.args[1]

C9_Witness ==
    /\ Returned("sccb_receive_data")
    /\ call.args[1] = 66
    /\ Len(XferStarts) = 2
    /\ XferStarts[1].ctl.device_address = 67
    /\ XferStarts[2].ctl.device_address = 66

\* C10: sccb_start_transfer writes sccb_en only when the engine is not
\* busy, together with sccb_en_we in one write, and returns only when the
\* engine is idle again: after sccb_send_data or sccb_receive_data returns
\* (and wherever sccb_start_transfer has returned) sccb_en is clear.
C10_EnableOnlyWhenIdle ==
    /\ \A i \in 1..Len(XferStarts) :
        /\ ~XferStarts[i].busy
        /\ XferStarts[i].w = {"sccb_en", "sccb_en_we"}
    /\ pc \in {"send_ret", "recv_strobe", "recv_ret"} => ~sts.sccb_en
    /\ (Returned("sccb_send_data") \/ Returned("sccb_receive_data")) => ~sts.sccb_en

\* A write has returned after its transfer completed, and the engine is idle.
C10_Witness ==
    /\ Returned("sccb_send_data")
    /\ sccb_cfg.rdata = 90
    /\ sccb_ctl.wdata_byte0 = 165
    /\ Len(XferStarts) = 1
    /\ ~sts.sccb_en


\* The bits of dvp_cfg other than the two output enables.
OtherConfig(cfg) ==
    [f \in DOMAIN cfg \ {"ai_output_enable", "display_output_enable"} |-> cfg[f]]

\* C13: set_output_enable is idempotent: from every state, for both modes
\* and both values of enable, the call applied twice leaves dvp_cfg as the
\* call applied once does, and a second call with the arguments of the call
\* that has just returned changes no register.
C13_OutputEnableIdempotent ==
    /\ [](\A i \in OutputModes, e \in BOOLEAN :
            OutputEnable(OutputEnable(dvp_cfg, i, e), i, e) = OutputEnable(dvp_cfg, i, e))
    /\ [][(/\ Returned("set_output_enable")
           /\ call'.op = "set_output_enable"
           /\ call'.args = call.args)
          => regs' = regs]_vars

\* The planar output has just been enabled while format and geometry are set.
C13_Witness ==
    /\ Returned("set_output_enable")
    /\ call.args = <<"AI", TRUE>>
    /\ dvp_cfg.ai_output_enable
    /\ dvp_cfg.line_num = 100
\* C14: the two output paths are gated independently.  An enable bit
\* changes only in a call of set_output_enable for its own mode, and then
\* to the value passed; a call of set_output_enable changes nothing else of
\* dvp_cfg and no other register; after the call the bit of its mode has
\* the value passed.
C14_OutputsGatedIndependently ==
    /\ [](Returned("set_output_enable")
            => /\ call.args[1] = "AI" => dvp_cfg.ai_output_enable = call.args[2]
               /\ call.args[1] = "DISPLAY" => dvp_cfg.display_output_enable = call.args[2])
    /\ [][/\ dvp_cfg'.ai_output_enable # dvp_cfg.ai_output_enable
             => /\ call'.op = "set_output_enable"
                /\ call'.args = <<"AI", dvp_cfg'.ai_output_enable>>
          /\ dvp_cfg'.display_output_enable # dvp_cfg.display_output_enable
             => /\ call'.op = "set_output_enable"
                /\ call'.args = <<"DISPLAY", dvp_cfg'.display_output_enable>>
          /\ call'.op = "set_output_enable"
             => /\ OtherConfig(dvp_cfg') = OtherConfig(dvp_cfg)
                /\ <<sccb_cfg, sccb_ctl, sts, axi, cmos_cfg>>'
                     = <<sccb_cfg, sccb_ctl, sts, axi, cmos_cfg>>]_vars

\* Both outputs are enabled, the interleaved one by the call just returned.
C14_Witness ==
    /\ Returned("set_output_enable")
    /\ call.args = <<"DISPLAY", TRUE>>
    /\ dvp_cfg.ai_output_enable
    /\ dvp_cfg.display_output_enable
\* The positions of the trace at which the driver writes dvp_en.
EnablingWrites ==
    {k \in 1..Len(trace) : trace[k].ev = "sts_write" /\ "dvp_en" \in trace[k].bits}

\* C15: in get_image every write that enables conversion is preceded, in
\* this order and within the call, by: a frame_start flag read as set; a
\* write that acknowledges frame_start and does not enable conversion; the
\* camera raising frame_start; a frame_start flag read as set.  Before the
\* second read the call makes no write that touches dvp_en.
C15_ConvertAfterSecondFrameStart ==
    call.op = "get_image"
    => \A k \in EnablingWrites :
        \E s, a, h, r \in 1..k :
            /\ s < a /\ a < h /\ h < r /\ r < k
            /\ trace[s] = FrameEvent("saw", {"frame_start"})
            /\ trace[a] = FrameEvent("sts_write", {"frame_start", "frame_start_we"})
            /\ trace[h] = FrameEvent("hw", {"frame_start"})
            /\ trace[r] = FrameEvent("saw", {"frame_start"})
            /\ \A j \in 1..(k - 1) :
                trace[j].ev = "sts_write" => trace[j].bits \cap {"dvp_en", "dvp_en_we"} = {}

\* get_image found a frame_start already pending when it was called,
\* discarded it, and has enabled conversion on the next one.
C15_Witness ==
    /\ call.op = "get_image"
    /\ pc = "gi_wait_finish"
    /\ Len(trace) = 5
    /\ trace[1].ev = "saw"
    /\ trace[3].ev = "hw"
    /\ sts.dvp_en
\* The reads and writes of sts that each of the three primitives makes.
PrimitiveSteps(op) ==
    CASE op = "start_frame" ->
            << FrameEvent("saw", {"frame_start"}),
               FrameEvent("sts_write", {"frame_start", "frame_start_we"}) >>
      [] op = "start_convert" ->
            << FrameEvent("sts_write", {"dvp_en", "dvp_en_we"}) >>
      [] op = "finish_convert" ->
            << FrameEvent("saw", {"frame_finish"}),
               FrameEvent("sts_write", {"frame_finish", "frame_finish_we"}) >>

\* C16: start_frame returns only after reading frame_start as set and its
\* one write clears frame_start and nothing else; start_convert reads
\* nothing, and its one write sets dvp_en and nothing else; finish_convert
\* returns only after reading frame_finish as set and its one write clears
\* frame_finish and nothing else.
C16_PrimitivesExposeSameEdges ==
    /\ [](call.op \in {"start_frame", "start_convert", "finish_convert"}
            => /\ Len(DriverEvents) <= Len(PrimitiveSteps(call.op))
               /\ \A i \in 1..Len(DriverEvents) :
                    DriverEvents[i] = PrimitiveSteps(call.op)[i]
               /\ pc = "idle" => DriverEvents = PrimitiveSteps(call.op)
               /\ call.op = "start_convert" => trace = PrimitiveSteps(call.op))
    /\ [][/\ (pc = "sf_ack" /\ pc' # pc)
              => sts' = [sts EXCEPT !.frame_start = FALSE]
          /\ (call.op # "start_convert" /\ call'.op = "start_convert")
              => sts' = [sts EXCEPT !.dvp_en = TRUE]
          /\ (pc = "fc_ack" /\ pc' # pc)
              => sts' = [sts EXCEPT !.frame_finish = FALSE]]_vars

\* finish_convert has returned on a frame_finish raised while it waited,
\* with the conversion that start_convert enabled still on.
C16_Witness ==
    /\ Returned("finish_convert")
    /\ Len(trace) = 3
    /\ trace[1] = FrameEvent("hw", {"frame_finish"})
    /\ sts.dvp_en
    /\ ~sts.frame_finish
\* C17: a set_image_size(w, h) that returns programs the burst count
\* w/8/4 if the burst bit is set when it is called and w/8 otherwise, and
\* the line count h; enable_burst and disable_burst leave the burst count
\* and the line count as they are.
C17_BurstCountFixedAtGeometry ==
    [][/\ (call'.op = "set_image_size" /\ pc' = "idle")
           => \E q \in 0..1024 :
                 /\ IsQuot(q, call'.args[1], 8)
                 /\ dvp_cfg.burst_size_4beats
                     => IsQuot(dvp_cfg'.href_burst_num, q, 4)
                 /\ ~dvp_cfg.burst_size_4beats
                     => dvp_cfg'.href_burst_num = q
                 /\ dvp_cfg'.line_num = call'.args[2]
                 /\ dvp_cfg'.burst_size_4beats = dvp_cfg.burst_size_4beats
       /\ call'.op \in {"enable_burst", "disable_burst"}
           => /\ dvp_cfg'.href_burst_num = dvp_cfg.href_burst_num
              /\ dvp_cfg'.line_num = dvp_cfg.line_num
              /\ dvp_cfg'.burst_size_4beats = (call'.op = "enable_burst")]_vars

\* Burst mode was switched off after the geometry 2040 x 100 was set with
\* it on: the burst count is still 2040/8/4 = 63.
C17_Witness ==
    /\ Returned("disable_burst")
    /\ ~dvp_cfg.burst_size_4beats
    /\ dvp_cfg.href_burst_num = 63
    /\ dvp_cfg.line_num = 100
\* C18: the low and the high half-period count of the SCCB clock are equal
\* in every state; they are 255 during and after init until another call,
\* and sccb_cfg changes only in init, which sets both to 255, and in
\* sccb_set_clk_rate, which sets both to D = F/R/2.
C18_EqualHalfPeriods ==
    /\ [](/\ sccb_cfg.scl_lcnt = sccb_cfg.scl_hcnt
          /\ call.op = "init" => sccb_cfg.scl_lcnt = 255)
    /\ [][sccb_cfg' # sccb_cfg
          => \/ /\ call'.op = "init"
                /\ sccb_cfg'.scl_lcnt = 255
                /\ sccb_cfg'.scl_hcnt = 255
             \/ /\ call'.op = "sccb_set_clk_rate"
                /\ call'.args[1] > 0
                /\ \E q \in 0..apb1_freq :
                    /\ IsQuot(q, apb1_freq, call'.args[1])
                    /\ IsQuot(sccb_cfg'.scl_lcnt, q, 2)
                /\ sccb_cfg'.scl_hcnt = sccb_cfg'.scl_lcnt
                /\ sccb_cfg'.scl_lcnt <= 255]_vars

\* After init, sccb_set_clk_rate(200) at 51200 Hz has programmed 128 into
\* both counts.
C18_Witness ==
    /\ Returned("sccb_set_clk_rate")
    /\ call.args = <<200>>
    /\ sccb_cfg.scl_lcnt = 128
    /\ sccb_cfg.scl_hcnt = 128
    /\ cmos_cfg.clk_enable
    /\ cmos_cfg.reset
\* The camera raised frame_finish at position h of the trace, after the
\* write of the call that enables conversion.
FinishAfterEnable(h) ==
    /\ trace[h] = FrameEvent("hw", {"frame_finish"})
    /\ \E k \in EnablingWrites : k < h

\* C19: get_image returns only on a frame_finish that the camera raised
\* after the combined write: while it waits and the camera has raised none
\* since that write the flag reads clear, whatever was pending before; and
\* when it has returned, the read that ended the wait follows such an edge.
C19_NoStaleFrameFinish ==
    call.op = "get_image"
    => /\ (pc = "gi_wait_finish" /\ ~\E h \in 1..Len(trace) : FinishAfterEnable(h))
            => ~sts.frame_finish
       /\ pc = "idle"
            => /\ trace[Len(trace)] = FrameEvent("saw", {"frame_finish"})
               /\ \E h \in 1..(Len(trace) - 1) : FinishAfterEnable(h)

\* The camera raised frame_finish before the combined write and again
\* after it; get_image returned on the second.
C19_Witness ==
    /\ Returned("get_image")
    /\ \E i \in 1..Len(trace) :
        /\ trace[i] = FrameEvent("hw", {"frame_finish"})
        /\ \A k \in EnablingWrites : i < k
    /\ \E h \in 1..Len(trace) : FinishAfterEnable(h)
\* The flag of the other kind.
OtherInterrupt(interrupt) ==
    IF interrupt = "frame_start" THEN "frame_finish" ELSE "frame_start"

\* C20: the write of clear_interrupt(kind) carries the flag of kind and its
\* write enable and no other write enable; it clears that flag and leaves
\* the flag of the other kind, dvp_en and sccb_en as they are at the
\* write.  A flag is raised by the hardware only, and get_interrupt returns
\* the flag as it is, so it returns false after the write until the
\* hardware raises the flag again.
C20_ClearsOnlyItsFlag ==
    /\ [](Returned("clear_interrupt")
            => /\ Last(trace).ev = "sts_write"
               /\ {call.args[1], call.args[1] \o "_we"} \subseteq Last(trace).bits
               /\ Last(trace).bits \cap {OtherInterrupt(call.args[1]) \o "_we",
                                         "dvp_en_we", "sccb_en_we"} = {})
    /\ [][/\ (pc = "ci_write" /\ pc' = "idle")
              => sts' = [sts EXCEPT ![call.args[1]] = FALSE]
          /\ \A f \in Interrupts :
                (~sts[f] /\ sts'[f]) => (pc' = pc /\ call' = call /\ ret' = ret)
          /\ (pc = "idle" /\ call'.op = "get_interrupt" /\ sts' = sts)
              => ret' = Val(IF sts[call'.args[1]] THEN 1 ELSE 0)
          /\ (Returned("clear_interrupt") /\ call'.op = "get_interrupt"
                /\ call'.args = call.args /\ ret'.val = 1)
              => sts[call.args[1]]]_vars

\* clear_interrupt(frame_start) has returned: frame_start is clear, while
\* frame_finish is still pending, conversion is on and a transfer is in
\* flight; all three were read as set and written back.
C20_Witness ==
    /\ Returned("clear_interrupt")
    /\ call.args = <<"frame_start">>
    /\ Last(trace).bits = {"frame_start", "frame_start_we", "frame_finish",
                           "dvp_en", "sccb_en"}
    /\ ~sts.frame_start
    /\ sts.frame_finish
    /\ sts.dvp_en
    /\ sts.sccb_en
====
